---- MODULE Spec2Model ----
(***************************************************************************)
(* Message passing layers of e3nn/point/message_passing.py.                *)
(*                                                                         *)
(* Tensors are functions over 0-based index ranges (0..n-1), so that the   *)
(* index arithmetic of view/reshape/index_select reads as in the source.   *)
(* Reals are exact integers (or exact fractions kept as numerator and      *)
(* denominator); floating point rounding is outside the model.             *)
(***************************************************************************)
EXTENDS Integers, Sequences, FiniteSets, TLC

VARIABLES conv, bloom, km, skm, pool, wtp, unpool

vars == <<conv, bloom, km, skm, pool, wtp, unpool>>

\* a module that is not called
Idle == [pc |-> "idle"]

\* a call of one component leaves the other components idle and untouched
ConvRest == <<bloom, km, skm, pool, wtp, unpool>>

ConvAlone == bloom = Idle /\ km = Idle /\ skm = Idle /\ pool = Idle /\ wtp = Idle /\ unpool = Idle

BloomRest == <<conv, km, skm, pool, wtp, unpool>>

BloomAlone == conv = Idle /\ km = Idle /\ skm = Idle /\ pool = Idle /\ wtp = Idle /\ unpool = Idle

KMeansRest == <<conv, bloom, skm, pool, wtp, unpool>>

KMeansAlone == conv = Idle /\ bloom = Idle /\ skm = Idle /\ pool = Idle /\ wtp = Idle /\ unpool = Idle

SymmetricKMeansRest == <<conv, bloom, km, pool, wtp, unpool>>

SymmetricKMeansAlone == conv = Idle /\ bloom = Idle /\ km = Idle /\ pool = Idle /\ wtp = Idle /\ unpool = Idle

PoolingRest == <<conv, bloom, km, skm, wtp, unpool>>

PoolingAlone == conv = Idle /\ bloom = Idle /\ km = Idle /\ skm = Idle /\ wtp = Idle /\ unpool = Idle

WTPConv2Rest == <<conv, bloom, km, skm, pool, unpool>>

WTPConv2Alone == conv = Idle /\ bloom = Idle /\ km = Idle /\ skm = Idle /\ pool = Idle /\ unpool = Idle

UnpoolingRest == <<conv, bloom, km, skm, pool, wtp>>

UnpoolingAlone == conv = Idle /\ bloom = Idle /\ km = Idle /\ skm = Idle /\ pool = Idle /\ wtp = Idle

None == <<>>

(***************************************************************************)
(* Bounds of the model.                                                    *)
(***************************************************************************)
MaxNodes == 2
MaxEdges == 2
MaxEquivNodes == 2
MaxEquivEdges == 2
MaxBloomNodes == 2
MaxPeaks == 2
MaxPoints == 3
MaxStart == 2
MaxIter == 2
MaxRandIter == 2
MaxSymmetricPoints == 4
MaxPoolNodes == 3
MaxBlocks == 2

(***************************************************************************)
(* Small helpers.                                                          *)
(***************************************************************************)
Range0(n) == 0 .. (n - 1)

RECURSIVE SumTo(_, _)
\* sum of f[0] .. f[n-1]
SumTo(f, n) == IF n = 0 THEN 0 ELSE SumTo(f, n - 1) + f[n - 1]

Vec3(a, b, c) == (0 :> a) @@ (1 :> b) @@ (2 :> c)

Zeros(n) == [c \in Range0(n) |-> 0]

\* torch.zeros(rows, cols)
ZerosTensor(rows, cols) == [r \in Range0(rows) |-> Zeros(cols)]

(***************************************************************************)
(* External collaborators of the layers (e3nn.kernel, e3nn.rsh, e3nn.o3,   *)
(* e3nn.rs): the per-edge operator of an edge vector and the rotation      *)
(* matrices of the representations.  Two representations are used:         *)
(*   "l0": one scalar (dimension 1),  "l1": one vector (dimension 3).      *)
(* The l1 -> l1 kernel is  w0 * Id + w1 * [r]x  (the l_filter = 0 and      *)
(* l_filter = 1 paths, the radial factor |r| folded into the second), the  *)
(* l0 -> l0 kernel is the 1x1 matrix w0.                                   *)
(***************************************************************************)
RsDim(Rs) == IF Rs = "l0" THEN 1 ELSE 3

\* entry (i, j) of the cross product matrix [r]x
CrossEntry(r, i, j) ==
    IF i = j THEN 0
    ELSE IF (i + 1) % 3 = j THEN -r[(i + 2) % 3]
    ELSE r[(i + 1) % 3]

\* the weights (w0, w1) of group g of a kernel with base weight W
GroupWeights(W, g) == <<W * (g + 1), W * (2 * g + 1)>>

KernelMatrix(Rs, w, r) ==
    IF Rs = "l0"
    THEN [i \in Range0(1) |-> [j \in Range0(1) |-> w[1]]]
    ELSE [i \in Range0(3) |-> [j \in Range0(3) |->
              (IF i = j THEN w[1] ELSE 0) + w[2] * CrossEntry(r, i, j)]]

\* Kernel(Rs_in, Rs_out, ConstantRadialModel)(edge_r): shape [E, cout, cin]
\* GroupKernel(..., groups)(edge_r): shape [E, groups, cout, cin]
Kernel(kernel, edge_r, E) ==
    IF kernel.groups = 0
    THEN [shape |-> <<E, RsDim(kernel.Rs), RsDim(kernel.Rs)>>,
          val   |-> [e \in Range0(E) |->
                        KernelMatrix(kernel.Rs, GroupWeights(kernel.weight, 0), edge_r[e])]]
    ELSE [shape |-> <<E, kernel.groups, RsDim(kernel.Rs), RsDim(kernel.Rs)>>,
          val   |-> [e \in Range0(E) |-> [g \in Range0(kernel.groups) |->
                        KernelMatrix(kernel.Rs, GroupWeights(kernel.weight, g), edge_r[e])]]]

\* rsh.spherical_harmonics_xyz(Rs_sh, edge_r) for Rs_sh = l0 + l1, as solid
\* harmonics: (1, r); the l = 1 part vanishes at the zero vector.
SphericalHarmonics(edge_r, E) ==
    [e \in Range0(E) |-> [c \in Range0(4) |-> IF c = 0 THEN 1 ELSE edge_r[e][c - 1]]]

\* ConstantRadialModel: the same weights on every edge
RadialModel(weight, E) == [e \in Range0(E) |-> GroupWeights(weight, 0)]

\* WeightedTensorProduct(l1, l0 + l1, l1)(x, sh, w) for one edge
TensorProduct(x, sh, w) ==
    LET r == [c \in Range0(3) |-> sh[c + 1]]
    IN  [i \in Range0(3) |->
            w[1] * sh[0] * x[i] + w[2] * SumTo([j \in Range0(3) |-> CrossEntry(r, i, j) * x[j]], 3)]

\* the 24 proper rotations that map the integer lattice to itself
SignedPerms ==
    {M \in [Range0(3) -> [Range0(3) -> {-1, 0, 1}]] :
        /\ \A i \in Range0(3) : Cardinality({j \in Range0(3) : M[i][j] # 0}) = 1
        /\ \A j \in Range0(3) : Cardinality({i \in Range0(3) : M[i][j] # 0}) = 1}

Det3(M) ==
      M[0][0] * (M[1][1] * M[2][2] - M[1][2] * M[2][1])
    - M[0][1] * (M[1][0] * M[2][2] - M[1][2] * M[2][0])
    + M[0][2] * (M[1][0] * M[2][1] - M[1][1] * M[2][0])

\* o3.rot(*angles)
Rotations == {M \in SignedPerms : Det3(M) = 1}

\* rs.rep(Rs * groups, *angles): block diagonal, one block per group
Rep(Rs, groups, R) ==
    LET d == RsDim(Rs)
    IN  [i \in Range0(groups * d) |-> [j \in Range0(groups * d) |->
            IF i \div d # j \div d THEN 0
            ELSE IF Rs = "l0" THEN 1 ELSE R[i % d][j % d]]]

\* rows @ M.T
MatMulT(rows, M, n, d) ==
    [r \in Range0(n) |-> [i \in Range0(d) |->
        SumTo([j \in Range0(d) |-> rows[r][j] * M[i][j]], d)]]

\* rows @ M
MatMul(rows, M, n, d) ==
    [r \in Range0(n) |-> [i \in Range0(d) |->
        SumTo([j \in Range0(d) |-> rows[r][j] * M[j][i]], d)]]

(***************************************************************************)
(* torch / torch_geometric primitives used by the layers.                  *)
(***************************************************************************)
\* x.index_select(0, index)
IndexSelect(x, index, E) == [e \in Range0(E) |-> x[index[e]]]

RECURSIVE ScatterAdd(_, _, _, _, _)
\* scatter_add of the first E rows of src into dim_size rows at index
ScatterAdd(src, index, E, dim_size, width) ==
    IF E = 0 THEN ZerosTensor(dim_size, width)
    ELSE LET acc == ScatterAdd(src, index, E - 1, dim_size, width)
             e   == E - 1
         IN  [acc EXCEPT ![index[e]] = [c \in Range0(width) |-> acc[index[e]][c] + src[e][c]]]

\* n ** 0.5 for the perfect squares the model uses
Sqrt(n) == CHOOSE s \in 0 .. n : s * s = n

Raised == [raised |-> TRUE, val |-> <<>>]

Returned(v) == [raised |-> FALSE, val |-> v]

\* einsum with the output indexed 'eig': the channel before the group
EinsumEijChannelFirst(k, x_j, N, groups, cout, cin) ==
    IF N = 0 THEN Raised
    ELSE Returned([e \in Range0(N) |-> [c \in Range0(groups * cout) |->
            SumTo([j \in Range0(cin) |->
                      k.val[e][c \div groups][j] * x_j[e][(c % groups) * cin + j]], cin)]])

\* torch.einsum('eij,egj->egi', k, x_j).reshape(N, groups * cout); einsum on
\* an operand with a zero-length dimension fails (pytorch issue 37628)
EinsumEij(k, x_j, N, groups, cout, cin) ==
    IF N = 0 THEN Raised
    ELSE Returned([e \in Range0(N) |-> [c \in Range0(groups * cout) |->
            SumTo([j \in Range0(cin) |->
                      k.val[e][c % cout][j] * x_j[e][(c \div cout) * cin + j]], cin)]])

\* torch.einsum('egij,egj->egi', k, x_j).reshape(N, groups * cout)
EinsumEgij(k, x_j, N, groups, cout, cin) ==
    IF N = 0 THEN Raised
    ELSE Returned([e \in Range0(N) |-> [c \in Range0(groups * cout) |->
            SumTo([j \in Range0(cin) |->
                      k.val[e][c \div cout][c % cout][j] * x_j[e][(c \div cout) * cin + j]], cin)]])

(***************************************************************************)
(* Convolution and WTPConv (tg.nn.MessagePassing, aggr = 'add').           *)
(***************************************************************************)
\* the flow of tg.nn.MessagePassing's default
FlowSourceToTarget == "source_to_target"

Flow == "target_to_source"

\* (i, j): messages are computed from x[edge_index[j]] and summed at edge_index[i]
FlowIJ == IF Flow = "target_to_source" THEN <<0, 1>> ELSE <<1, 0>>

\* Convolution.forward: k = self.kernel(edge_r); k.div_(n_norm ** 0.5)
ConvKernel(c) ==
    LET k == Kernel(c.kernel, c.edge_r, c.E)
        s == Sqrt(c.n_norm)
    IN  IF c.kernel.groups = 0
        THEN [k EXCEPT !.val = [e \in Range0(c.E) |-> [i \in Range0(k.shape[2]) |->
                                   [j \in Range0(k.shape[3]) |-> k.val[e][i][j] \div s]]]]
        ELSE [k EXCEPT !.val = [e \in Range0(c.E) |-> [g \in Range0(k.shape[2]) |->
                                   [i \in Range0(k.shape[3]) |->
                                       [j \in Range0(k.shape[4]) |-> k.val[e][g][i][j] \div s]]]]]

\* Convolution.message without the return for an empty k
ConvMessageNoEmptyReturn(x_j, width, k, groups) ==
    LET N    == k.shape[1]
        cout == k.shape[Len(k.shape) - 1]
        cin  == k.shape[Len(k.shape)]
    IN  IF N > 0 /\ width # groups * cin THEN Raised
        ELSE IF Len(k.shape) = 4 /\ k.shape[2] = groups
             THEN EinsumEgij(k, x_j, N, groups, cout, cin)
        ELSE IF Len(k.shape) = 3
             THEN EinsumEij(k, x_j, N, groups, cout, cin)
        ELSE Raised

\* Convolution.message
ConvMessage(x_j, width, k, groups) ==
    LET N    == k.shape[1]
        cout == k.shape[Len(k.shape) - 1]
        cin  == k.shape[Len(k.shape)]
    IN  IF N > 0 /\ width # groups * cin THEN Raised            \* x_j.view
        ELSE IF k.shape[1] = 0 THEN Returned(ZerosTensor(0, groups * cout))
        ELSE IF Len(k.shape) = 4 /\ k.shape[2] = groups
             THEN EinsumEgij(k, x_j, N, groups, cout, cin)
        ELSE IF Len(k.shape) = 3
             THEN EinsumEij(k, x_j, N, groups, cout, cin)
        ELSE Raised

\* WTPConv.forward: sh and w of the edges
WTPInputs(c) ==
    LET s == Sqrt(c.n_norm)
    IN  [sh |-> [e \in Range0(c.E) |-> [m \in Range0(4) |->
                    SphericalHarmonics(c.edge_r, c.E)[e][m] \div s]],
         w  |-> RadialModel(c.kernel.weight, c.E)]

\* WTPConv.message
WTPMessage(x_j, k, E) == Returned([e \in Range0(E) |-> TensorProduct(x_j[e], k.sh[e], k.w[e])])

\* the width of a row of the layer's output
OutWidth(c) == c.groups * RsDim(c.kernel.Rs)

\* self.propagate: the size check and x_j = x[edge_index[j]]
Collect(c) ==
    IF c.size # None /\ c.size[1] # c.n_target THEN Raised
    ELSE IF \E e \in Range0(c.E) : c.edge_index[FlowIJ[2]][e] >= c.n_target THEN Raised
    ELSE Returned(IndexSelect(c.features, c.edge_index[FlowIJ[2]], c.E))

\* self.propagate: the number of output rows
DimSize(c) == IF c.size = None THEN c.n_target ELSE c.size[2]

\* self.propagate: the sum of the messages at edge_index[i]
Aggregate(c, msg) ==
    IF \E e \in Range0(c.E) : c.edge_index[FlowIJ[1]][e] >= DimSize(c) THEN Raised
    ELSE Returned(ScatterAdd(msg, c.edge_index[FlowIJ[1]], c.E, DimSize(c), OutWidth(c)))

LayerKernel(c) == IF c.layer = "Convolution" THEN ConvKernel(c) ELSE WTPInputs(c)

LayerMessage(c, k) ==
    LET x_j == Collect(c)
    IN  IF x_j.raised THEN Raised
        ELSE IF c.layer = "Convolution"
             THEN ConvMessage(x_j.val, c.groups * RsDim(c.kernel.Rs), k, c.groups)
        ELSE WTPMessage(x_j.val, k, c.E)

\* the layer's forward as one function of its inputs
Forward(c) ==
    LET msg == LayerMessage(c, LayerKernel(c))
    IN  IF msg.raised THEN Raised ELSE Aggregate(c, msg.val)

(***************************************************************************)
(* The inputs of a call of a layer.                                        *)
(***************************************************************************)
EdgeVectorList == <<Vec3(0, 0, 0), Vec3(1, 0, 0), Vec3(1, 2, 0)>>

\* E edge vectors, one of them the zero vector when E > 1
EdgeVectors(E) ==
    {[e \in Range0(E) |-> EdgeVectorList[((e + sh) % 3) + 1]] : sh \in 0 .. 2}

FeatureChunkList(Rs) ==
    IF Rs = "l0" THEN <<(0 :> -1), (0 :> 1), (0 :> 2)>>
    ELSE <<Vec3(1, 0, 0), Vec3(0, 1, 2), Vec3(-1, 3, 1)>>

\* n rows of groups chunks of the representation Rs
Features(Rs, groups, n) ==
    {[r \in Range0(n) |-> [col \in Range0(groups * RsDim(Rs)) |->
          FeatureChunkList(Rs)[((2 * r + (col \div RsDim(Rs)) + sh) % 3) + 1][col % RsDim(Rs)]]] :
        sh \in 0 .. 2}

\* the layers of the equivariance tests: Convolution with a plain kernel
\* (groups = 1 or more) or a GroupKernel, and WTPConv
LayerVariants ==
    {[layer |-> "Convolution", kgroups |-> 0, groups |-> 1],
     [layer |-> "Convolution", kgroups |-> 0, groups |-> 2],
     [layer |-> "Convolution", kgroups |-> 2, groups |-> 2],
     [layer |-> "WTPConv", kgroups |-> 0, groups |-> 1]}

\* (kernel weight, n_norm): the weights stay integers after k.div_(n_norm ** 0.5)
WeightNorms == {<<1, 1>>, <<2, 4>>}

ConvCall(layer, kernel, features, n_target, edge_index, E, edge_r, size, n_norm, groups) ==
    [layer |-> layer, kernel |-> kernel, features |-> features, n_target |-> n_target,
     edge_index |-> edge_index, E |-> E, edge_r |-> edge_r, size |-> size,
     n_norm |-> n_norm, groups |-> groups,
     k |-> None, msg |-> None, out |-> None, raised |-> FALSE, pc |-> "forward"]

\* test_flow: the star graph, centre 0 and leaves 1..4, and the same with the
\* rows of edge_index swapped
StarEdges == (0 :> [e \in Range0(4) |-> 0]) @@ (1 :> [e \in Range0(4) |-> e + 1])

StarEdgesSwapped == (0 :> StarEdges[1]) @@ (1 :> StarEdges[0])

StarFeatures == [n \in Range0(5) |-> (0 :> (IF n = 0 THEN -1 ELSE 1))]

TestFlowCall(edge_index) ==
    ConvCall("Convolution", [Rs |-> "l0", groups |-> 0, weight |-> 1], StarFeatures, 5,
             edge_index, 4, [e \in Range0(4) |-> Vec3(1, 1, 1)], None, 1, 1)

ConvInit ==
    /\ ConvAlone
    /\ \/ conv \in {TestFlowCall(StarEdges), TestFlowCall(StarEdgesSwapped)}
       \/ \E v \in LayerVariants, Rs \in {"l0", "l1"}, wn \in WeightNorms,
             n_target \in 1 .. MaxNodes, n_source \in 1 .. MaxNodes, E \in 0 .. MaxEdges :
            /\ v.layer = "WTPConv" => Rs = "l1" /\ wn[2] = 1
            /\ \E features \in Features(Rs, v.groups, n_target),
                  edge_index \in [Range0(2) -> [Range0(E) -> Range0(MaxNodes)]],
                  edge_r \in EdgeVectors(E),
                  size \in {None, <<n_target, n_source>>} :
                 /\ size = None => n_source = n_target
                 /\ \A e \in Range0(E) : edge_index[0][e] < n_source /\ edge_index[1][e] < n_target
                 /\ conv = ConvCall(v.layer, [Rs |-> Rs, groups |-> v.kgroups, weight |-> wn[1]],
                                    features, n_target, edge_index, E, edge_r, size, wn[2], v.groups)

\* E edges between n_source sources and n_target targets, as the random
\* edges of the equivariance tests
PatternEdges(n_source, n_target, E) ==
    {(0 :> [e \in Range0(E) |-> (e + a) % n_source]) @@
     (1 :> [e \in Range0(E) |-> (2 * e + b) % n_target]) :
        a \in Range0(n_source), b \in Range0(n_target)}

\* test_equivariance and test_equivariance_wtp: vector features, size given
EquivInit ==
    /\ ConvAlone
    /\ \E v \in LayerVariants,
          n_target \in 1 .. MaxEquivNodes, n_source \in 1 .. MaxEquivNodes, E \in 0 .. MaxEquivEdges :
         \E features \in Features("l1", v.groups, n_target),
            edge_index \in PatternEdges(n_source, n_target, E),
            edge_r \in EdgeVectors(E) :
           conv = ConvCall(v.layer, [Rs |-> "l1", groups |-> v.kgroups, weight |-> 1],
                           features, n_target, edge_index, E, edge_r, <<n_target, n_source>>, 1, v.groups)

(***************************************************************************)
(* The steps of a call.                                                    *)
(***************************************************************************)
\* Convolution.forward up to self.propagate
ConvForward ==
    /\ conv.pc = "forward"
    /\ conv.layer = "Convolution"
    /\ conv' = [conv EXCEPT !.k = ConvKernel(conv), !.pc = "message"]
    /\ UNCHANGED ConvRest

\* WTPConv.forward up to self.propagate
WTPForward ==
    /\ conv.pc = "forward"
    /\ conv.layer = "WTPConv"
    /\ conv' = [conv EXCEPT !.k = WTPInputs(conv), !.pc = "message"]
    /\ UNCHANGED ConvRest

\* self.propagate: the messages of the edges
Message ==
    /\ conv.pc = "message"
    /\ LET msg == LayerMessage(conv, conv.k)
       IN  conv' = IF msg.raised
                   THEN [conv EXCEPT !.raised = TRUE, !.pc = "done"]
                   ELSE [conv EXCEPT !.msg = msg.val, !.pc = "aggregate"]
    /\ UNCHANGED ConvRest

\* self.propagate: the aggregation, and the return
Propagate ==
    /\ conv.pc = "aggregate"
    /\ LET out == Aggregate(conv, conv.msg)
       IN  conv' = IF out.raised
                   THEN [conv EXCEPT !.raised = TRUE, !.pc = "done"]
                   ELSE [conv EXCEPT !.out = out.val, !.pc = "done"]
    /\ UNCHANGED ConvRest

ConvNext == ConvForward \/ WTPForward \/ Message \/ Propagate

SpecConv == ConvInit /\ [][ConvNext]_vars

SpecEquiv == EquivInit /\ [][ConvNext]_vars

(***************************************************************************)
(* Properties of Convolution and WTPConv.                                  *)
(***************************************************************************)
RECURSIVE SumOver(_, _)
\* the sum of f[e] over the elements e of the set S
SumOver(f, S) ==
    IF S = {} THEN 0
    ELSE LET e == CHOOSE x \in S : TRUE IN f[e] + SumOver(f, S \ {e})

\* column col of K_e applied to the row x, group by group
ApplyKernel(c, e, x, col) ==
    LET d == RsDim(c.kernel.Rs)
        g == col \div d
        K == IF c.kernel.groups = 0 THEN c.k.val[e] ELSE c.k.val[e][g]
    IN  SumTo([j \in Range0(d) |-> K[col % d][j] * x[g * d + j]], d)

ConvDone == conv.pc = "done" /\ conv.layer = "Convolution"

\* C1: the output row s of Convolution.forward is the sum, over the edges e
\* with edge_index[0][e] = s, of K_e applied to features[edge_index[1][e]], and
\* a row that is the source of no edge is zero; on the star graph of
\* test_flow row 0 is 4 and rows 1..4 are 0, and with the rows of edge_index
\* swapped rows 1..4 are -1 and row 0 is 0.
ConvAggregatesAtSource ==
    ConvDone =>
        /\ ~conv.raised
        /\ DOMAIN conv.out = Range0(DimSize(conv))
        /\ \A s \in Range0(DimSize(conv)), col \in Range0(OutWidth(conv)) :
              conv.out[s][col] =
                  SumOver([e \in Range0(conv.E) |->
                              ApplyKernel(conv, e, conv.features[conv.edge_index[1][e]], col)],
                          {e \in Range0(conv.E) : conv.edge_index[0][e] = s})
        /\ conv.edge_index = StarEdges =>
              conv.out = [n \in Range0(5) |-> (0 :> (IF n = 0 THEN 4 ELSE 0))]
        /\ conv.edge_index = StarEdgesSwapped =>
              conv.out = [n \in Range0(5) |-> (0 :> (IF n = 0 THEN 0 ELSE -1))]

\* the star graph of test_flow has been convolved: the centre holds the sum
\* of the four leaves
ConvStarDone ==
    /\ ConvDone
    /\ conv.edge_index = StarEdges
    /\ conv.out[0][0] = 4

\* the call of the layer on the inputs rotated by R, rotated back
RotatedForward(c, R) ==
    LET D   == Rep(c.kernel.Rs, c.groups, R)
        w   == OutWidth(c)
        out == Forward([c EXCEPT !.features = MatMulT(c.features, D, c.n_target, w),
                                 !.edge_r = MatMulT(c.edge_r, R, c.E, 3)])
    IN  IF out.raised THEN out ELSE Returned(MatMul(out.val, D, DimSize(c), w))

\* C2: for every rotation, the layer (Convolution with a plain kernel, with
\* groups, with a grouped kernel, and WTPConv) applied to the rotated features
\* and edge vectors and rotated back equals the layer applied to the inputs,
\* also with no edge and with a zero edge vector (exactly, in exact arithmetic).
RotationEquivariance ==
    conv.pc = "done" /\ ~conv.raised =>
        \A R \in Rotations : RotatedForward(conv, R) = Returned(conv.out)

\* WTPConv has run on two edges, one of them the zero vector, with a non-zero
\* output
EquivarianceZeroEdgeDone ==
    /\ conv.pc = "done"
    /\ ~conv.raised
    /\ conv.layer = "WTPConv"
    /\ conv.E = 2
    /\ \E e \in Range0(conv.E) : conv.edge_r[e] = Vec3(0, 0, 0)
    /\ \E s \in DOMAIN conv.out : conv.out[s] # Zeros(3)

\* C3: with no edge and size = (n_target, n_source) given, Convolution.forward
\* does not raise and returns zeros of shape [n_source, groups * cout], for
\* every groups and for plain and grouped kernels.
EmptyEdgeSetZero ==
    ConvDone /\ conv.E = 0 /\ conv.size # None =>
        /\ ~conv.raised
        /\ conv.out = ZerosTensor(conv.size[2], conv.groups * RsDim(conv.kernel.Rs))

\* a grouped kernel has been convolved over an empty edge set
EmptyEdgeSetDone ==
    /\ ConvDone
    /\ conv.E = 0
    /\ conv.size = <<1, 2>>
    /\ conv.kernel.groups = 2
    /\ conv.out = ZerosTensor(2, 6)

(***************************************************************************)
(* Bloom.  Lengths (radii, min_radius, absolute_min, positions, signals)   *)
(* are integers in units of 1 / Unit, so that absolute_min = 0.01 is 1;    *)
(* with percentage = True min_radius is the ratio min_radius / Unit.       *)
(***************************************************************************)
Unit == 100

absolute_min == 1

VecAdd(a, b) == [c \in Range0(3) |-> a[c] + b[c]]

VecScale(a, x) == [c \in Range0(3) |-> a[c] * x]

RECURSIVE Cat(_)
\* torch.cat of a list of tensors along dim 0
Cat(list) == IF list = <<>> THEN <<>> ELSE Head(list) \o Cat(Tail(list))

\* the largest value of a non-empty sequence
MaxOf(seq) == CHOOSE m \in {seq[n] : n \in DOMAIN seq} : \A n \in DOMAIN seq : seq[n] <= m

\* sig.abs().max(0)[0] > 0.
NonZeroSignal(sig) == \E c \in DOMAIN sig : sig[c] # 0

\* SphericalTensor(sig).find_peaks(res): the directions and radii of the peaks
\* of node i, an oracle of the call; no peaks for a signal that is not examined
FindPeaks(b, i) == IF NonZeroSignal(b.signal[i]) THEN b.found[i] ELSE [peaks |-> <<>>, radii |-> <<>>]

\* radii > min_radius, as the indices kept: (radii > min_radius).nonzero().reshape(-1)
KeepAbsolute(radii, min_radius) ==
    SelectSeq([n \in DOMAIN radii |-> n], LAMBDA n : radii[n] > min_radius)

\* radii > max(min_radius * torch.max(radii), absolute_min), as a mask over the peaks
KeepMask(radii, min_radius, abs_min) ==
    [n \in DOMAIN radii |-> radii[n] * Unit > min_radius * MaxOf(radii) /\ radii[n] > abs_min]

\* tensor[mask]: the entries where the mask is true
Masked(seq, mask) == Cat([n \in DOMAIN seq |-> IF mask[n] THEN <<seq[n]>> ELSE <<>>])

\* self.used_radius, as a fraction <<numerator, denominator>>
UsedRadius(b, radii) ==
    IF ~b.percentage THEN <<b.min_radius, 1>>
    ELSE IF b.min_radius * MaxOf(radii) > absolute_min * Unit
    THEN <<b.min_radius * MaxOf(radii), Unit>>
    ELSE <<absolute_min, 1>>

\* one iteration of the loop of Bloom.forward without self.used_radius
BloomKeep(b, i) ==
    LET sig   == b.signal[i]
        found == FindPeaks(b, i)
        peaks == found.peaks
        radii == found.radii
        fallback == [b EXCEPT !.all_peaks = Append(@, <<IF b.use_L1
                                                          THEN [c \in Range0(3) |-> sig[c + 1]]
                                                          ELSE Zeros(3)>>),
                              !.new_indices = Append(@, <<i>>)]
    IN  IF b.percentage
        THEN IF radii = <<>> THEN [b EXCEPT !.raised = TRUE]      \* torch.max of an empty tensor
             ELSE LET keep_indices == KeepMask(radii, b.min_radius, absolute_min)
                  IN  IF Len(keep_indices) = 0 THEN fallback
                      ELSE [b EXCEPT !.all_peaks = Append(@,
                                         Masked([n \in DOMAIN peaks |-> VecScale(peaks[n], radii[n])],
                                                keep_indices)),
                                     !.new_indices = Append(@, [n \in 1 .. Len(keep_indices) |-> i])]
        ELSE LET keep_indices == KeepAbsolute(radii, b.min_radius)
             IN  IF Len(keep_indices) = 0 THEN fallback
                 ELSE [b EXCEPT !.all_peaks = Append(@,
                                    [n \in 1 .. Len(keep_indices) |->
                                        VecScale(peaks[keep_indices[n]], radii[keep_indices[n]])]),
                                !.new_indices = Append(@, [n \in 1 .. Len(keep_indices) |-> i])]

\* one iteration of the loop of Bloom.forward, for node i
BloomNode(b, i) ==
    LET kept == BloomKeep(b, i)
    IN  IF kept.raised THEN kept
        ELSE [kept EXCEPT !.used_radius = UsedRadius(b, FindPeaks(b, i).radii)]

\* all_peaks + pos[new_indices], with the broadcasting of torch over dim 0
AddBroadcast(all_peaks, rows) ==
    IF Len(all_peaks) = Len(rows)
    THEN Returned([n \in 1 .. Len(rows) |-> VecAdd(all_peaks[n], rows[n])])
    ELSE IF Len(all_peaks) = 1
    THEN Returned([n \in 1 .. Len(rows) |-> VecAdd(all_peaks[1], rows[n])])
    ELSE IF Len(rows) = 1
    THEN Returned([n \in 1 .. Len(all_peaks) |-> VecAdd(all_peaks[n], rows[1])])
    ELSE Raised

\* the end of Bloom.forward: (all_peaks + pos[new_indices], new_indices)
BloomResult(b) ==
    LET all_peaks   == Cat(b.all_peaks)
        new_indices == Cat(b.new_indices)
        sum == AddBroadcast(all_peaks, [n \in 1 .. Len(new_indices) |-> b.pos[new_indices[n]]])
    IN  IF sum.raised THEN Raised
        ELSE Returned([peak_positions |-> sum.val, origin_index |-> new_indices])

PeakDirections == <<Vec3(1, 0, 0), Vec3(0, 1, 0), Vec3(0, 0, 1)>>

RadiusValues == {1, 60, 120}

\* the results find_peaks may give: up to MaxPeaks peaks
PeakLists ==
    {[peaks |-> [n \in 1 .. P |-> PeakDirections[((n - 1) % 3) + 1]], radii |-> radii] :
        P \in 0 .. MaxPeaks, radii \in UNION {[1 .. Q -> RadiusValues] : Q \in 0 .. MaxPeaks}}

Signals == {[c \in Range0(4) |-> 0], (0 :> 3) @@ (1 :> 0) @@ (2 :> 5) @@ (3 :> 0)}

MinRadiusValues == {0, 2, 50, 100}

BloomInit ==
    /\ BloomAlone
    /\ \E N \in 1 .. MaxBloomNodes :
         \E signal \in [Range0(N) -> Signals], found \in [Range0(N) -> PeakLists],
            min_radius \in MinRadiusValues, percentage \in BOOLEAN, use_L1 \in BOOLEAN :
           /\ \A i \in Range0(N) :
                 /\ Len(found[i].peaks) = Len(found[i].radii)
                 /\ ~NonZeroSignal(signal[i]) => found[i].radii = <<>>
           /\ bloom = [signal |-> signal, pos |-> [i \in Range0(N) |-> Vec3(1000 * i, 0, 0)],
                       N |-> N, found |-> found, min_radius |-> min_radius,
                       percentage |-> percentage, use_L1 |-> use_L1,
                       i |-> 0, all_peaks |-> <<>>, new_indices |-> <<>>, used_radius |-> None,
                       out |-> None, raised |-> FALSE, pc |-> "loop"]

\* the body of "for i, sig in enumerate(signal)"
BloomLoop ==
    /\ bloom.pc = "loop"
    /\ bloom.i < bloom.N
    /\ LET b == BloomNode(bloom, bloom.i)
       IN  bloom' = IF b.raised THEN [b EXCEPT !.pc = "done"]
                    ELSE [b EXCEPT !.i = @ + 1]
    /\ UNCHANGED BloomRest

\* torch.cat and the return
BloomReturn ==
    /\ bloom.pc = "loop"
    /\ bloom.i = bloom.N
    /\ LET r == BloomResult(bloom)
       IN  bloom' = IF r.raised THEN [bloom EXCEPT !.raised = TRUE, !.pc = "done"]
                    ELSE [bloom EXCEPT !.out = r.val, !.pc = "done"]
    /\ UNCHANGED BloomRest

BloomNext == BloomLoop \/ BloomReturn

SpecBloom == BloomInit /\ [][BloomNext]_vars

(***************************************************************************)
(* Properties of Bloom.                                                    *)
(***************************************************************************)
\* peak n of node i passes the threshold of the call
Survives(b, i, n) ==
    LET radii == FindPeaks(b, i).radii
    IN  IF b.percentage
        THEN radii[n] * Unit > b.min_radius * MaxOf(radii) /\ radii[n] > absolute_min
        ELSE radii[n] > b.min_radius

NoSurvivor(b, i) == \A n \in DOMAIN FindPeaks(b, i).radii : ~Survives(b, i, n)

Count(seq, x) == Cardinality({n \in DOMAIN seq : seq[n] = x})

\* C4: Bloom.forward returns, for every min_radius, percentage and use_L1, at
\* least one bloomed point per input node, exactly one for a node whose signal
\* is zero or whose peaks all fail the threshold, and so M >= N points.
BloomComplete ==
    bloom.pc = "done" =>
        /\ ~bloom.raised
        /\ Len(bloom.out.origin_index) = Len(bloom.out.peak_positions)
        /\ Len(bloom.out.origin_index) >= bloom.N
        /\ \A i \in Range0(bloom.N) :
              /\ Count(bloom.out.origin_index, i) >= 1
              /\ NoSurvivor(bloom, i) => Count(bloom.out.origin_index, i) = 1

(***************************************************************************)
(* KMeans.  Positions are integer vectors; a centroid is the exact         *)
(* fraction num / den of an integer vector and a positive integer, kept    *)
(* in lowest terms (den = 0 stands for a non-numeric value); tol is a      *)
(* fraction <<numerator, denominator>>.                                    *)
(***************************************************************************)
Abs(x) == IF x < 0 THEN -x ELSE x

\* the tensor x with all its entries computed
Tensor(x) == x @@ x

RECURSIVE GCD(_, _)
GCD(a, b) == IF b = 0 THEN a ELSE GCD(b, a % b)

\* the fraction num / den in lowest terms
Fraction(num, den) ==
    IF den = 0 THEN [num |-> Zeros(3), den |-> 0]
    ELSE LET g == GCD(GCD(GCD(Abs(num[0]), Abs(num[1])), Abs(num[2])), den)
         IN  [num |-> [c \in Range0(3) |-> num[c] \div g], den |-> den \div g]

\* a position as a centroid
Point(p) == [num |-> p, den |-> 1]

\* the square of the distance of the position p to the centroid c, times c.den ^ 2
Dist2Num(p, c) ==
    SumTo([k \in Range0(3) |-> (p[k] * c.den - c.num[k]) * (p[k] * c.den - c.num[k])], 3)

\* p is strictly nearer to the centroid c1 than to the centroid c2
Nearer(p, c1, c2) == Dist2Num(p, c1) * c2.den * c2.den < Dist2Num(p, c2) * c1.den * c1.den

\* torch_geometric.nn.nearest(pos, centroids, batch, centroids_batch): for each
\* position the nearest centroid of its batch, the first one on a tie
Nearest(pos, N, centroids, M, batch, centroids_batch) ==
    [n \in Range0(N) |->
        LET own == {m \in Range0(M) : centroids_batch[m] = batch[n]}
        IN  CHOOSE m \in own : \A o \in own :
                \/ Nearer(pos[n], centroids[m], centroids[o])
                \/ ~Nearer(pos[n], centroids[o], centroids[m]) /\ m <= o]

RECURSIVE VecSum(_, _)
\* the sum of the positions pos[n], n in S
VecSum(pos, S) ==
    IF S = {} THEN Zeros(3)
    ELSE LET n == CHOOSE x \in S : TRUE IN VecAdd(pos[n], VecSum(pos, S \ {n}))

\* the divisor of torch_scatter's scatter_mean: the count, clamped to 1
MeanCount(count) == IF count < 1 THEN 1 ELSE count

\* scatter_mean(pos, classification, dim=0, dim_size=M)
ScatterMean(pos, N, classification, M) ==
    [m \in Range0(M) |->
        LET S == {n \in Range0(N) : classification[n] = m}
        IN  Fraction(VecSum(pos, S), MeanCount(Cardinality(S)))]

\* scatter_mean(torch.ones(N), classification, dim=0, dim_size=M): <<num, den>>
ScatterMeanOnes(N, classification, M) ==
    [m \in Range0(M) |->
        LET count == Cardinality({n \in Range0(N) : classification[n] = m})
        IN  <<count, MeanCount(count)>>]

\* the update alone, without the mask
BlendNoMask(update, mask, centroid) == update

\* update * mask + centroid * (1 - mask) for one centroid
Blend(update, mask, centroid) ==
    LET a == [num |-> VecScale(update.num, mask[1]), den |-> update.den * mask[2]]
        b == [num |-> VecScale(centroid.num, mask[2] - mask[1]), den |-> centroid.den * mask[2]]
    IN  Fraction(VecAdd(VecScale(a.num, b.den), VecScale(b.num, a.den)), a.den * b.den)

\* KMeans.update_centroids
UpdateCentroids(pos, N, batch, centroids, M, centroids_batch) ==
    LET classification == Tensor(Nearest(pos, N, centroids, M, batch, centroids_batch))
        update == Tensor(ScatterMean(pos, N, classification, M))
        mask   == Tensor(ScatterMeanOnes(N, classification, M))
    IN  [new_centroids  |-> Tensor([m \in Range0(M) |-> Blend(update[m], mask[m], centroids[m])]),
         classification |-> classification]

\* (c - d).norm(2, -1) < tol
MovedLessThan(c, d, tol) ==
    LET diff2 == SumTo([k \in Range0(3) |->
                    (c.num[k] * d.den - d.num[k] * c.den) * (c.num[k] * d.den - d.num[k] * c.den)], 3)
    IN  diff2 * tol[2] * tol[2] < tol[1] * tol[1] * c.den * c.den * d.den * d.den

\* ((centroids - new_centroids).norm(2, -1) < self.tol).all()
Converged(centroids, new_centroids, M, tol) ==
    \A m \in Range0(M) : MovedLessThan(centroids[m], new_centroids[m], tol)

(***************************************************************************)
(* torch_cluster.fps(start_pos, start_batch, ratio): in every batch        *)
(* ceil(ratio * n) positions, the first one drawn at random, each next one *)
(* the position farthest from those taken (the first one on a tie).        *)
(***************************************************************************)
Dist2(p, q) == SumTo([k \in Range0(3) |-> (p[k] - q[k]) * (p[k] - q[k])], 3)

\* the smallest squared distance of the position n to the positions taken
MinDist2(pos, n, taken) ==
    LET ds == {Dist2(pos[n], pos[taken[t]]) : t \in DOMAIN taken}
    IN  CHOOSE d \in ds : \A e \in ds : d <= e

RECURSIVE FpsGrow(_, _, _, _)
FpsGrow(pos, members, taken, k) ==
    IF Len(taken) >= k THEN taken
    ELSE LET rest == {n \in members : \A t \in DOMAIN taken : taken[t] # n}
             next == CHOOSE n \in rest : \A o \in rest :
                        \/ MinDist2(pos, n, taken) > MinDist2(pos, o, taken)
                        \/ MinDist2(pos, n, taken) = MinDist2(pos, o, taken) /\ n <= o
         IN  FpsGrow(pos, members, Append(taken, next), k)

\* ceil(ratio * n) for the ratio <<numerator, denominator>>
CeilRatio(ratio, n) == (n * ratio[1] + ratio[2] - 1) \div ratio[2]

RECURSIVE FpsBatches(_, _, _, _, _, _)
\* the indices taken in the batches b .. B - 1 with the first positions first[b]
FpsBatches(pos, S, batch, ratio, first, b) ==
    IF \A n \in Range0(S) : batch[n] < b THEN <<>>
    ELSE LET members == {n \in Range0(S) : batch[n] = b}
         IN  (IF members = {} THEN <<>>
              ELSE FpsGrow(pos, members, <<first[b]>>, CeilRatio(ratio, Cardinality(members))))
             \o FpsBatches(pos, S, batch, ratio, first, b + 1)

\* the index sequences fps may return
Fps(pos, S, batch, ratio) ==
    LET batches == {batch[n] : n \in Range0(S)}
    IN  {FpsBatches(pos, S, batch, ratio, first, 0) :
            first \in {f \in [batches -> Range0(S)] : \A b \in batches : batch[f[b]] = b}}

\* start_pos[fps_indices], start_batch[fps_indices] as 0-based tensors
Take(x, indices) == [m \in Range0(Len(indices)) |-> x[indices[m + 1]]]

\* the loop of KMeans.forward from its iteration max_iter - left on
RECURSIVE KMeansLoop(_, _, _, _, _, _, _, _, _)
KMeansLoop(pos, N, batch, centroids, M, centroids_batch, tol, left, classification) ==
    IF left = 0
    THEN IF classification = None THEN Raised     \* the local classification is unbound
         ELSE Returned([classification |-> classification, centroids |-> centroids,
                        centroids_batch |-> centroids_batch])
    ELSE LET u == UpdateCentroids(pos, N, batch, centroids, M, centroids_batch)
         IN  IF Converged(centroids, u.new_centroids, M, tol)
             THEN Returned([classification |-> u.classification, centroids |-> u.new_centroids,
                            centroids_batch |-> centroids_batch])
             ELSE KMeansLoop(pos, N, batch, u.new_centroids, M, centroids_batch, tol,
                             left - 1, u.classification)

\* KMeans.forward after fps returned fps_indices
KMeansForward(pos, N, batch, start_pos, start_batch, fps_indices, tol, max_iter) ==
    KMeansLoop(pos, N, batch, [m \in Range0(Len(fps_indices)) |-> Point(Take(start_pos, fps_indices)[m])],
               Len(fps_indices), Take(start_batch, fps_indices), tol, max_iter, None)

(***************************************************************************)
(* The inputs of a call of KMeans.forward.                                 *)
(***************************************************************************)
PointValues == <<Vec3(-10, 0, 0), Vec3(0, 0, 0), Vec3(4, 0, 0), Vec3(10, 0, 0), Vec3(4, 6, 0)>>

\* n distinct positions of values, in the order of values
PositionsOf(values, n) ==
    {[i \in Range0(n) |-> values[idx[i + 1]]] :
        idx \in {q \in [1 .. n -> 1 .. Len(values)] : \A i \in 1 .. (n - 1) : q[i] < q[i + 1]}}

Positions(n) == PositionsOf(PointValues, n)

\* one batch, or the first position in batch 0 and the others in batch 1
Batches(n) ==
    {[i \in Range0(n) |-> 0]} \cup
    (IF n >= 2 THEN {[i \in Range0(n) |-> IF i = 0 THEN 0 ELSE 1]} ELSE {})

TolValues == {<<0, 1>>, <<1, 1>>, <<4, 1>>}

FpsRatios == {<<1, 2>>, <<1, 1>>}

KMeansInit ==
    /\ KMeansAlone
    /\ \E N \in 1 .. MaxPoints, S \in 0 .. MaxStart :
         \E pos \in Positions(N), batch \in Batches(N),
            start_pos \in Positions(S), start_batch \in Batches(S),
            tol \in TolValues, max_iter \in 0 .. MaxIter, fps_ratio \in FpsRatios :
           /\ S > 0 => {batch[n] : n \in Range0(N)} \subseteq {start_batch[n] : n \in Range0(S)}
           /\ km = [pos |-> pos, batch |-> batch, N |-> N,
                    start_pos |-> IF S = 0 THEN pos ELSE start_pos,
                    start_batch |-> IF S = 0 THEN batch ELSE start_batch,
                    S |-> IF S = 0 THEN N ELSE S,
                    fps_ratio |-> fps_ratio, tol |-> tol, max_iter |-> max_iter,
                    centroids |-> None, centroids_batch |-> None, M |-> 0,
                    new_centroids |-> None, classification |-> None,
                    iter |-> 0, early |-> FALSE, result |-> None, raised |-> FALSE, pc |-> "start"]

(***************************************************************************)
(* The steps of KMeans.forward.                                            *)
(***************************************************************************)
\* fps and the first centroids
KMeansStart ==
    /\ km.pc = "start"
    /\ \E fps_indices \in Fps(km.start_pos, km.S, km.start_batch, km.fps_ratio) :
          km' = [km EXCEPT !.centroids = [m \in Range0(Len(fps_indices)) |->
                                             Point(Take(km.start_pos, fps_indices)[m])],
                           !.centroids_batch = Take(km.start_batch, fps_indices),
                           !.M = Len(fps_indices),
                           !.pc = "loop"]
    /\ UNCHANGED KMeansRest

\* new_centroids, classification = self.update_centroids(...)
KMeansUpdate ==
    /\ km.pc = "loop"
    /\ km.iter < km.max_iter
    /\ LET u == UpdateCentroids(km.pos, km.N, km.batch, km.centroids, km.M, km.centroids_batch)
       IN  km' = [km EXCEPT !.new_centroids = u.new_centroids,
                            !.classification = u.classification,
                            !.iter = @ + 1,
                            !.pc = "test"]
    /\ UNCHANGED KMeansRest

\* every centroid moved by less than tol: return inside the loop
KMeansConverged ==
    /\ km.pc = "test"
    /\ Converged(km.centroids, km.new_centroids, km.M, km.tol)
    /\ km' = [km EXCEPT !.result = [classification |-> km.classification,
                                    centroids |-> km.new_centroids,
                                    centroids_batch |-> km.centroids_batch],
                        !.early = TRUE,
                        !.pc = "done"]
    /\ UNCHANGED KMeansRest

\* centroids = new_centroids
KMeansContinue ==
    /\ km.pc = "test"
    /\ ~Converged(km.centroids, km.new_centroids, km.M, km.tol)
    /\ km' = [km EXCEPT !.centroids = km.new_centroids, !.pc = "loop"]
    /\ UNCHANGED KMeansRest

\* the return after the loop
KMeansExhausted ==
    /\ km.pc = "loop"
    /\ km.iter = km.max_iter
    /\ km' = IF km.classification = None
             THEN [km EXCEPT !.raised = TRUE, !.pc = "done"]
             ELSE [km EXCEPT !.result = [classification |-> km.classification,
                                         centroids |-> km.centroids,
                                         centroids_batch |-> km.centroids_batch],
                             !.pc = "done"]
    /\ UNCHANGED KMeansRest

KMeansNext ==
    KMeansStart \/ KMeansUpdate \/ KMeansConverged \/ KMeansContinue \/ KMeansExhausted

SpecKMeans == KMeansInit /\ [][KMeansNext]_vars

(***************************************************************************)
(* Properties of KMeans.                                                   *)
(***************************************************************************)
\* the positions assigned to the centroid m by the last update
Assigned(m) == {n \in Range0(km.N) : km.classification[n] = m}

\* C8: in every update_centroids step a centroid without assigned positions
\* keeps its previous value, a centroid with assigned positions becomes their
\* mean, and no centroid is non-numeric (no division by zero).
EmptyCentroidKeepsValue ==
    km.pc = "test" =>
        \A m \in Range0(km.M) :
            LET c == km.new_centroids[m]
            IN  /\ c.den > 0
                /\ Assigned(m) = {} => c = km.centroids[m]
                /\ Assigned(m) # {} =>
                      VecScale(c.num, Cardinality(Assigned(m))) = VecScale(VecSum(km.pos, Assigned(m)), c.den)

\* an update has left one centroid without positions and moved another
EmptyCentroidUpdated ==
    /\ km.pc = "test"
    /\ \E m \in Range0(km.M) : Assigned(m) = {} /\ km.new_centroids[m] = km.centroids[m]
    /\ \E m \in Range0(km.M) : Assigned(m) # {} /\ km.new_centroids[m] # km.centroids[m]

\* C6: when KMeans.forward returns inside the loop, one more update_centroids
\* from the returned centroids gives the returned classification.
ReturnedAssignmentStable ==
    km.pc = "done" /\ km.early =>
        UpdateCentroids(km.pos, km.N, km.batch, km.result.centroids, km.M,
                        km.centroids_batch).classification = km.result.classification

\* C9: KMeans.forward performs at most max_iter updates and returns
\* (classification, centroids, centroid_batch) without raising, whatever
\* max_iter and tol; without convergence these are the classification and the
\* centroids of the last iteration.
KMeansAlwaysReturns ==
    /\ km.iter <= km.max_iter
    /\ km.pc = "done" =>
          /\ ~km.raised
          /\ ~km.early => /\ km.result.classification = km.classification
                          /\ km.result.centroids = km.new_centroids

(***************************************************************************)
(* SymmetricKMeans.  A sparse index matrix is the set of its (row, column) *)
(* pairs; a score is a fraction <<numerator, denominator>>.                *)
(***************************************************************************)
\* torch_sparse.spspmm(A, ones, B, ones, ..., coalesced=True)[0]
SpSpMM(A, B) == {<<ab[1][1], ab[2][2]>> : ab \in {x \in A \X B : x[1][2] = x[2][1]}}

\* batch.max() + 1
NumBatches(batch, N) == (CHOOSE b \in {batch[n] : n \in Range0(N)} : \A n \in Range0(N) : batch[n] <= b) + 1

\* torch.cat(self.rand_iter * [pos], dim=0)
BigPos(pos, N, R) == Tensor([i \in Range0(R * N) |-> pos[i % N]])

\* (batch.unsqueeze(0).repeat(rand_iter, 1) + arange(rand_iter).unsqueeze(-1) * (batch.max() + 1)).reshape(-1)
BigBatch(batch, N, R) == Tensor([i \in Range0(R * N) |-> batch[i % N] + (i \div N) * NumBatches(batch, N)])

FracAdd(a, b) ==
    LET num == a[1] * b[2] + b[1] * a[2]
        den == a[2] * b[2]
        g   == GCD(Abs(num), den)
    IN  <<num \div g, den \div g>>

FracLeq(a, b) == a[1] * b[2] <= b[1] * a[2]

\* (pos - centroid).norm(1, -1) of one position
Norm1(p, c) == <<SumTo([k \in Range0(3) |-> Abs(p[k] * c.den - c.num[k])], 3), c.den>>

RECURSIVE FracSum(_, _)
\* the sum of the fractions f[n], n in S
FracSum(f, S) ==
    IF S = {} THEN <<0, 1>>
    ELSE LET n == CHOOSE x \in S : TRUE IN FracAdd(f[n], FracSum(f, S \ {n}))

\* KMeans.score with score_norm = 1: scatter_add of the distances by batch
Score(pos, N, batch, centroids, classification) ==
    [b \in Range0(NumBatches(batch, N)) |->
        FracSum([n \in Range0(N) |-> Norm1(pos[n], centroids[classification[n]])],
                {n \in Range0(N) : batch[n] = b})]

\* x.reshape(rows, -1) of a tensor of rows * cols entries
Reshape(x, rows, cols) == [r \in Range0(rows) |-> [c \in Range0(cols) |-> x[r * cols + c]]]

\* SymmetricKMeans.cluster_edge_index_by_score
ClusterEdgeIndexByScore(scores, classification, batch, N, R) ==
    LET B == NumBatches(batch, N)
        batch_index == {<<batch[n], n>> : n \in Range0(N)}
        \* scores <= scores.min(dim=0)[0]
        best_scores == {rb \in Range0(R) \X Range0(B) :
                           \A r \in Range0(R) : FracLeq(scores[rb[1]][rb[2]], scores[r][rb[2]])}
        best_classifications == SpSpMM(best_scores, batch_index)
        cluster_index == {<<classification[rn[1]][rn[2]], rn[2]>> : rn \in best_classifications}
    IN  SpSpMM({<<cn[2], cn[1]>> : cn \in cluster_index}, cluster_index)

RECURSIVE Reachable(_, _)
\* the nodes connected to a node of S by the edges
Reachable(S, edges) ==
    LET T == S \cup {e[2] : e \in {x \in edges : x[1] \in S}}
                \cup {e[1] : e \in {x \in edges : x[2] \in S}}
    IN  IF T = S THEN S ELSE Reachable(T, edges)

MinOfSet(S) == CHOOSE m \in S : \A x \in S : m <= x

\* the components labelled by their first node instead of their rank
ComponentLabelsByFirstNode(N, edge_index) ==
    LET edges == {e \in edge_index : e[1] <= e[2]}
    IN  [n \in Range0(N) |-> MinOfSet(Reachable({n}, edges))]

\* nx.connected_components of the graph on 0 .. N-1, numbered in the order of
\* their first node: labels[node_groups[i]] = i
ComponentLabels(N, edge_index) ==
    LET edges == {e \in edge_index : e[1] <= e[2]}
        first(n) == MinOfSet(Reachable({n}, edges))
    IN  [n \in Range0(N) |-> Cardinality({first(m) : m \in {x \in Range0(N) : first(x) < first(n)}})]

\* SymmetricKMeans.forward after fps returned fps_indices
SymmetricKMeansForward(c, fps_indices) ==
    LET R == c.rand_iter
        big_pos   == BigPos(c.pos, c.N, R)
        big_batch == BigBatch(c.batch, c.N, R)
        kmeans == KMeansForward(big_pos, R * c.N, big_batch,
                                BigPos(c.start_pos, c.S, R), BigBatch(c.start_batch, c.S, R),
                                fps_indices, c.tol, c.max_iter)
    IN  IF kmeans.raised THEN Raised
        ELSE LET scores == Reshape(Score(big_pos, R * c.N, big_batch, kmeans.val.centroids,
                                         kmeans.val.classification),
                                   R, NumBatches(c.batch, c.N))
                 classification == Reshape(kmeans.val.classification, R, c.N)
             IN  Returned(ComponentLabels(c.N,
                     ClusterEdgeIndexByScore(scores, classification, c.batch, c.N, R)))

\* the index sequences fps may return in SymmetricKMeans.forward
SymmetricFps(c) ==
    Fps(BigPos(c.start_pos, c.S, c.rand_iter), c.rand_iter * c.S,
        BigBatch(c.start_batch, c.S, c.rand_iter), c.fps_ratio)

(***************************************************************************)
(* The inputs and the steps of a call of SymmetricKMeans.forward.          *)
(***************************************************************************)
SymmetricTolValues == {<<1, 1>>}

\* positions on a line, no two pairs of them at the same distance
SymmetricPointValues == <<Vec3(-10, 0, 0), Vec3(0, 0, 0), Vec3(4, 0, 0), Vec3(12, 0, 0)>>

SymmetricKMeansInit ==
    /\ SymmetricKMeansAlone
    /\ \E N \in 1 .. MaxSymmetricPoints, S \in {0, MaxStart}, R \in 1 .. MaxRandIter :
         \E pos \in PositionsOf(SymmetricPointValues, N), batch \in Batches(N),
            start_pos \in PositionsOf(SymmetricPointValues, S), start_batch \in Batches(S),
            tol \in SymmetricTolValues, max_iter \in 1 .. MaxIter, fps_ratio \in FpsRatios :
           /\ S > 0 => {batch[n] : n \in Range0(N)} = {start_batch[n] : n \in Range0(S)}
           /\ skm = [pos |-> pos, batch |-> batch, N |-> N,
                     start_pos |-> IF S = 0 THEN pos ELSE start_pos,
                     start_batch |-> IF S = 0 THEN batch ELSE start_batch,
                     S |-> IF S = 0 THEN N ELSE S,
                     fps_ratio |-> fps_ratio, rand_iter |-> R, tol |-> tol, max_iter |-> max_iter,
                     fps_indices |-> None, classification |-> None, centroids |-> None,
                     scores |-> None, cluster_edge_index |-> None, labels |-> None,
                     raised |-> FALSE, pc |-> "kmeans"]

\* the giant batch and super().forward
SymmetricKMeansCluster ==
    /\ skm.pc = "kmeans"
    /\ \E fps_indices \in SymmetricFps(skm) :
          LET R == skm.rand_iter
              kmeans == KMeansForward(BigPos(skm.pos, skm.N, R), R * skm.N,
                                      BigBatch(skm.batch, skm.N, R),
                                      BigPos(skm.start_pos, skm.S, R),
                                      BigBatch(skm.start_batch, skm.S, R),
                                      fps_indices, skm.tol, skm.max_iter)
          IN  skm' = IF kmeans.raised
                     THEN [skm EXCEPT !.fps_indices = fps_indices, !.raised = TRUE, !.pc = "done"]
                     ELSE [skm EXCEPT !.fps_indices = fps_indices,
                                      !.classification = kmeans.val.classification,
                                      !.centroids = kmeans.val.centroids,
                                      !.pc = "score"]
    /\ UNCHANGED SymmetricKMeansRest

\* scores and classification, one row per restart
SymmetricKMeansScore ==
    /\ skm.pc = "score"
    /\ LET R == skm.rand_iter
       IN  skm' = [skm EXCEPT
              !.scores = Reshape(Score(BigPos(skm.pos, skm.N, R), R * skm.N,
                                       BigBatch(skm.batch, skm.N, R), skm.centroids,
                                       skm.classification),
                                 R, NumBatches(skm.batch, skm.N)),
              !.classification = Reshape(skm.classification, R, skm.N),
              !.pc = "edges"]
    /\ UNCHANGED SymmetricKMeansRest

\* self.cluster_edge_index_by_score
SymmetricKMeansEdges ==
    /\ skm.pc = "edges"
    /\ skm' = [skm EXCEPT
          !.cluster_edge_index = ClusterEdgeIndexByScore(skm.scores, skm.classification,
                                                         skm.batch, skm.N, skm.rand_iter),
          !.pc = "components"]
    /\ UNCHANGED SymmetricKMeansRest

\* the connected components and the labels
SymmetricKMeansLabels ==
    /\ skm.pc = "components"
    /\ skm' = [skm EXCEPT !.labels = ComponentLabels(skm.N, skm.cluster_edge_index),
                          !.pc = "done"]
    /\ UNCHANGED SymmetricKMeansRest

SymmetricKMeansNext ==
    \/ SymmetricKMeansCluster
    \/ SymmetricKMeansScore
    \/ SymmetricKMeansEdges
    \/ SymmetricKMeansLabels

SpecSymmetricKMeans == SymmetricKMeansInit /\ [][SymmetricKMeansNext]_vars

(***************************************************************************)
(* Properties of SymmetricKMeans.                                          *)
(***************************************************************************)
\* the partition of 0 .. N-1 given by the labels
Partition(labels, N) == {{m \in Range0(N) : labels[m] = labels[n]} : n \in Range0(N)}

\* the permutations of 0 .. N-1
Permutations0(N) == {f \in [Range0(N) -> Range0(N)] : \A n \in Range0(N) : \E m \in Range0(N) : f[m] = n}

\* the call with the positions in the order perm: point i of the call is the
\* original point perm[i]
Permuted(c, perm) == [c EXCEPT !.pos = [i \in Range0(c.N) |-> c.pos[perm[i]]],
                               !.batch = [i \in Range0(c.N) |-> c.batch[perm[i]]]]

\* the partition of the original points a call on the permuted points gives
PartitionBack(labels, N, perm) ==
    {{perm[m] : m \in {x \in Range0(N) : labels[x] = labels[n]}} : n \in Range0(N)}

\* C7: the partition SymmetricKMeans.forward returns is the same for every
\* draw of the initial centroids and every order of the input points.
LabelInvariance ==
    skm.pc = "done" /\ ~skm.raised =>
        \A perm \in Permutations0(skm.N) :
            LET c == Permuted(skm, perm)
            IN  \A fps_indices \in SymmetricFps(c) :
                    LET r == SymmetricKMeansForward(c, fps_indices)
                    IN  /\ ~r.raised
                        /\ PartitionBack(r.val, skm.N, perm) = Partition(skm.labels, skm.N)

(***************************************************************************)
(* Pooling and its helpers.  The layers of a Pooling are given at          *)
(* construction: the bloom convolution is any layer (its output is drawn), *)
(* the bloom module is a Bloom, the cluster module a SymmetricKMeans with  *)
(* rand_iter = 1 and tol = 1, and the gather convolution a Convolution of  *)
(* scalars with weight 1.                                                  *)
(***************************************************************************)
\* the (row, column) pairs of an index tensor with E columns
Pairs(index, E) == {<<index[0][e], index[1][e]>> : e \in Range0(E)}

PairLess(p, q) == p[1] < q[1] \/ (p[1] = q[1] /\ p[2] < q[2])

RECURSIVE SortPairs(_)
\* a coalesced index as the sequence of its columns, sorted by row and column
SortPairs(S) ==
    IF S = {} THEN <<>>
    ELSE LET m == CHOOSE p \in S : \A q \in S \ {p} : PairLess(p, q)
         IN  <<m>> \o SortPairs(S \ {m})

\* torch_sparse.coalesce(index, ones, m, n)[0]: the entries are told apart by
\* row * n + col, and of the entries with the same value one remains
Coalesce(pairs, n) ==
    LET keys == {p[1] * n + p[2] : p \in pairs}
    IN  {{f[k] : k \in keys} :
            f \in {g \in [keys -> pairs] : \A k \in keys : g[k][1] * n + g[k][2] = k}}

\* the difference a - b of two exact positions
CentroidSub(a, b) ==
    Fraction(VecAdd(VecScale(a.num, b.den), VecScale(b.num, -a.den)), a.den * b.den)

RECURSIVE BloomRun(_, _)
\* the loop of Bloom.forward from node i on, and the return
BloomRun(b, i) ==
    IF i = b.N THEN BloomResult(b)
    ELSE LET n == BloomNode(b, i)
         IN  IF n.raised THEN Raised ELSE BloomRun(n, i + 1)

\* Bloom.forward(signal, pos, min_radius): percentage=False, use_L1=True
BloomForward(signal, pos, N, found, min_radius) ==
    BloomRun([signal |-> signal, pos |-> pos, N |-> N, found |-> found,
              min_radius |-> min_radius, percentage |-> FALSE, use_L1 |-> TRUE,
              i |-> 0, all_peaks |-> <<>>, new_indices |-> <<>>, used_radius |-> None,
              out |-> None, raised |-> FALSE, pc |-> "loop"], 0)

\* a list as a tensor indexed from 0
AsTensor(seq) == Tensor([j \in Range0(Len(seq)) |-> seq[j + 1]])

\* max(clusters) + 1
NumClusters(clusters, B) == MinOfSet({c \in 1 .. B : \A j \in Range0(B) : clusters[j] < c})

\* scatter_mean(pos[cluster_index[1]], cluster_index[0], dim=0)
NewPos(pos, cluster_index) ==
    LET rows == MinOfSet({r \in 0 .. Cardinality(cluster_index) + 1 :
                             \A p \in cluster_index : p[1] < r})
    IN  Tensor([c \in Range0(rows) |->
            LET S == {p[2] : p \in {q \in cluster_index : q[1] = c}}
            IN  Fraction(VecSum(pos, S), MeanCount(Cardinality(S)))])

\* pos[bloom_batch] - new_pos[clusters]
GatherEdgeAttr(pos, bloom_batch, B, new_pos, clusters) ==
    IF \E j \in Range0(B) : clusters[j] \notin DOMAIN new_pos THEN Raised
    ELSE Returned(Tensor([j \in Range0(B) |->
             CentroidSub(Point(pos[bloom_batch[j]]), new_pos[clusters[j]])]))

\* get_new_edge_index(N, edge_index, bloom_batch, cluster), coalesced
GetNewEdgeIndex(edge_index, E, bloom_batch, B, cluster) ==
    LET bloom_index   == {<<bloom_batch[j], j>> : j \in Range0(B)}
        cluster_index == {<<j, cluster[j]>> : j \in Range0(B)}
        convert_edge_index == SpSpMM(SpSpMM(Pairs(edge_index, E), bloom_index), cluster_index)
    IN  SortPairs(SpSpMM({<<p[2], p[1]>> : p \in convert_edge_index}, convert_edge_index))

\* new_pos[new_edge_index[1]] - new_pos[new_edge_index[0]]
NewEdgeAttr(new_pos, new_edge_index) ==
    IF \E e \in DOMAIN new_edge_index :
          new_edge_index[e][1] \notin DOMAIN new_pos \/ new_edge_index[e][2] \notin DOMAIN new_pos
    THEN Raised
    ELSE Returned([e \in DOMAIN new_edge_index |->
             CentroidSub(new_pos[new_edge_index[e][2]], new_pos[new_edge_index[e][1]])])

\* get_new_batch(gather_edge_index, batch): the rows of gather_edge_index are
\* multiplied with (arange(len(batch)), batch)
GetNewBatch(gather_edge_index, B, batch) ==
    LET batch_index == {<<j, batch[j]>> : j \in Range0(B)}
        new_batch_index == SortPairs(SpSpMM(Pairs(gather_edge_index, B), batch_index))
    IN  [k \in DOMAIN new_batch_index |-> new_batch_index[k][2]]

\* the call of the cluster module in Pooling.forward
ClusterCall(p) ==
    [pos |-> p.bloom_pos, N |-> p.B, batch |-> Tensor([j \in Range0(p.B) |-> p.batch[p.bloom_batch[j]]]),
     start_pos |-> p.pos, S |-> p.N, start_batch |-> p.batch,
     fps_ratio |-> <<1, 2>>, rand_iter |-> p.rand_iter, tol |-> p.tol, max_iter |-> p.max_iter]

\* the call of the gather convolution in Pooling.forward
GatherCall(p, gather_edge_attr) ==
    ConvCall("Convolution", [Rs |-> "l0", groups |-> 0, weight |-> 1], p.x, p.N,
             (0 :> p.clusters) @@ (1 :> p.bloom_batch), p.B, gather_edge_attr,
             <<p.N, NumClusters(p.clusters, p.B)>>, 1, 1)

(***************************************************************************)
(* The inputs and the steps of a call of Pooling.forward.                  *)
(***************************************************************************)
\* node n at 100 * n on the first axis: neighbours are nearer than a long peak
PoolingPositions(N) == Tensor([n \in Range0(N) |-> Vec3(100 * n, 0, 0)])

\* the loops alone, every pair of nodes, or the one undirected edge between
\* the last two nodes
PoolingEdges(N) ==
    {[E |-> N, edge_index |-> (0 :> [e \in Range0(N) |-> e]) @@ (1 :> [e \in Range0(N) |-> e])],
     [E |-> N * N, edge_index |-> (0 :> [e \in Range0(N * N) |-> e \div N]) @@
                                  (1 :> [e \in Range0(N * N) |-> e % N])],
     LET E == IF N >= 2 THEN 2 ELSE 0
     IN  [E |-> E, edge_index |-> (0 :> [e \in Range0(E) |-> N - 2 + e]) @@
                                  (1 :> [e \in Range0(E) |-> N - 1 - e])]}

\* the results find_peaks may give for a node of a Pooling: no peak, one
\* peak, two opposite peaks
PoolingPeakLists ==
    {[peaks |-> <<>>, radii |-> <<>>],
     [peaks |-> <<Vec3(1, 0, 0)>>, radii |-> <<60>>],
     [peaks |-> <<Vec3(1, 0, 0), Vec3(-1, 0, 0)>>, radii |-> <<120, 120>>]}

PoolingMinRadiusValues == {50, 100}

PoolingInit ==
    /\ PoolingAlone
    /\ \E N \in 1 .. MaxPoolNodes, max_iter \in 1 .. MaxIter :
         \E batch \in Batches(N), edges \in PoolingEdges(N), min_radius \in PoolingMinRadiusValues :
           pool = [N |-> N, pos |-> PoolingPositions(N), batch |-> batch,
                   edge_index |-> edges.edge_index, E |-> edges.E, min_radius |-> min_radius,
                   rand_iter |-> 1, tol |-> <<1, 1>>, max_iter |-> max_iter,
                   sph |-> None, x |-> None, bloom_pos |-> None, bloom_batch |-> None, B |-> 0,
                   clusters |-> None, cluster_index |-> None, new_pos |-> None,
                   gather_edge_attr |-> None, x_out |-> None,
                   new_edge_index |-> None, new_edge_attr |-> None, new_batch |-> None,
                   raised |-> FALSE, pc |-> "conv"]

\* out = self.layers['conv'](...), sph and x
PoolingConv ==
    /\ pool.pc = "conv"
    /\ \E sph \in [Range0(pool.N) -> Signals] :
          pool' = [pool EXCEPT !.sph = sph,
                               !.x = [n \in Range0(pool.N) |-> (0 :> n + 1)],
                               !.pc = "bloom"]
    /\ UNCHANGED PoolingRest

\* bloom_pos, bloom_batch = self.layers['bloom'](sph, pos, min_radius)
PoolingBloom ==
    /\ pool.pc = "bloom"
    /\ \E found \in [Range0(pool.N) -> PoolingPeakLists] :
          /\ \A i \in Range0(pool.N) : ~NonZeroSignal(pool.sph[i]) => found[i].radii = <<>>
          /\ LET b == BloomForward(pool.sph, pool.pos, pool.N, found, pool.min_radius)
             IN  pool' = IF b.raised THEN [pool EXCEPT !.raised = TRUE, !.pc = "done"]
                         ELSE [pool EXCEPT !.bloom_pos = AsTensor(b.val.peak_positions),
                                           !.bloom_batch = AsTensor(b.val.origin_index),
                                           !.B = Len(b.val.origin_index),
                                           !.pc = "cluster"]
    /\ UNCHANGED PoolingRest

\* clusters = self.layers['cluster'](bloom_pos, batch[bloom_batch], start_pos=pos, start_batch=batch)
PoolingCluster ==
    /\ pool.pc = "cluster"
    /\ \E fps_indices \in SymmetricFps(ClusterCall(pool)) :
          LET labels == SymmetricKMeansForward(ClusterCall(pool), fps_indices)
          IN  pool' = IF labels.raised THEN [pool EXCEPT !.raised = TRUE, !.pc = "done"]
                      ELSE [pool EXCEPT !.clusters = labels.val, !.pc = "coalesce"]
    /\ UNCHANGED PoolingRest

\* cluster_index and new_pos
PoolingCoalesce ==
    /\ pool.pc = "coalesce"
    /\ \E cluster_index \in Coalesce({<<pool.clusters[j], pool.bloom_batch[j]>> : j \in Range0(pool.B)},
                                     NumBatches(pool.batch, pool.N)) :
          pool' = [pool EXCEPT !.cluster_index = cluster_index,
                               !.new_pos = NewPos(pool.pos, cluster_index),
                               !.pc = "gather"]
    /\ UNCHANGED PoolingRest

\* gather_edge_index, gather_edge_attr and x = self.layers['gather'](...)
PoolingGather ==
    /\ pool.pc = "gather"
    /\ LET gather_edge_attr == GatherEdgeAttr(pool.pos, pool.bloom_batch, pool.B,
                                              pool.new_pos, pool.clusters)
           x == IF gather_edge_attr.raised THEN Raised
                ELSE Forward(GatherCall(pool, gather_edge_attr.val))
       IN  pool' = IF x.raised THEN [pool EXCEPT !.raised = TRUE, !.pc = "done"]
                   ELSE [pool EXCEPT !.gather_edge_attr = gather_edge_attr.val,
                                     !.x_out = x.val,
                                     !.pc = "edges"]
    /\ UNCHANGED PoolingRest

\* new_edge_index, new_edge_attr, new_batch and the return
PoolingEdgesAndBatch ==
    /\ pool.pc = "edges"
    /\ LET new_edge_index == GetNewEdgeIndex(pool.edge_index, pool.E, pool.bloom_batch,
                                             pool.B, pool.clusters)
           new_edge_attr == NewEdgeAttr(pool.new_pos, new_edge_index)
       IN  pool' = IF new_edge_attr.raised THEN [pool EXCEPT !.raised = TRUE, !.pc = "done"]
                   ELSE [pool EXCEPT
                           !.new_edge_index = new_edge_index,
                           !.new_edge_attr = new_edge_attr.val,
                           !.new_batch = GetNewBatch((0 :> pool.clusters) @@ (1 :> pool.bloom_batch),
                                             pool.B,
                                             [j \in Range0(pool.B) |-> pool.batch[pool.bloom_batch[j]]]),
                           !.pc = "done"]
    /\ UNCHANGED PoolingRest

PoolingNext ==
    \/ PoolingConv
    \/ PoolingBloom
    \/ PoolingCluster
    \/ PoolingCoalesce
    \/ PoolingGather
    \/ PoolingEdgesAndBatch

SpecPooling == PoolingInit /\ [][PoolingNext]_vars

(***************************************************************************)
(* Properties of Pooling.                                                  *)
(***************************************************************************)
\* Pooling.forward returned
PoolingDone == pool.pc = "done" /\ ~pool.raised

\* the clusters the bloomed points of node n are assigned to
ClustersOf(n) == {pool.clusters[j] : j \in {i \in Range0(pool.B) : pool.bloom_batch[i] = n}}

\* C5 as amended: after Pooling.forward every bloomed point has exactly one
\* cluster id, every original node has a bloomed point and so at least one
\* output cluster, and no cluster id in 0 .. max(clusters) is empty.
PoolingMappingTotal ==
    PoolingDone =>
        /\ DOMAIN pool.clusters = Range0(pool.B)
        /\ DOMAIN pool.bloom_batch = Range0(pool.B)
        /\ \A n \in Range0(pool.N) : ClustersOf(n) # {}
        /\ \A c \in Range0(NumClusters(pool.clusters, pool.B)) :
              \E j \in Range0(pool.B) : pool.clusters[j] = c

\* C5 as stated: moreover the bloomed points of every original node are
\* all assigned to one and the same output cluster.
PoolingConservation ==
    PoolingDone =>
        /\ PoolingMappingTotal
        /\ \A n \in Range0(pool.N) : Cardinality(ClustersOf(n)) = 1

\* a call returned in which the two bloomed points of a node are assigned to
\* two clusters
PoolingNodeInTwoClusters ==
    /\ PoolingDone
    /\ \E n \in Range0(pool.N) : Cardinality(ClustersOf(n)) = 2

\* the bloomed points of node n
BloomedPointsOf(n) == {j \in Range0(pool.B) : pool.bloom_batch[j] = n}

\* the pairs of the returned new_edge_index
NewEdges == {pool.new_edge_index[k] : k \in DOMAIN pool.new_edge_index}

\* C11: after Pooling.forward, for every original edge (u, v), every bloomed
\* point bu of u and every bloomed point bv of v, the new edge index holds
\* the pair (cluster[bu], cluster[bv]).
PoolingEdgesSurvive ==
    PoolingDone =>
        \A e \in Range0(pool.E) :
            \A bu \in BloomedPointsOf(pool.edge_index[0][e]),
               bv \in BloomedPointsOf(pool.edge_index[1][e]) :
                <<pool.clusters[bu], pool.clusters[bv]>> \in NewEdges

\* C12: after Pooling.forward new_batch has one batch id per new node, and
\* the entry of new node c is the batch id of every original node that has
\* a bloomed point in c.
PoolingNewBatchExact ==
    PoolingDone =>
        /\ Len(pool.new_batch) = NumClusters(pool.clusters, pool.B)
        /\ \A j \in Range0(pool.B) :
              pool.new_batch[pool.clusters[j] + 1] = pool.batch[pool.bloom_batch[j]]

(***************************************************************************)
(* WTPConv2.  A representation is a list of blocks <<mul, l, p>>.  The     *)
(* collaborators (rs.simplify, rs.dim, Linear, GroupedWeightedTensor-      *)
(* Product, the radial model) are outside the repository; their weights    *)
(* are parameters of a call.  An entry a + b * sqrt(1/2) of the output is  *)
(* the record [one |-> a, sqrt_half |-> b].                                *)
(***************************************************************************)
\* mul * (2 * l + 1)
BlockDim(block) == block[1] * (2 * block[2] + 1)

RECURSIVE DimOf(_)
\* rs.dim(Rs)
DimOf(Rs) == IF Rs = <<>> THEN 0 ELSE BlockDim(Head(Rs)) + DimOf(Tail(Rs))

RECURSIVE SimplifyInto(_, _)
\* rs.simplify: neighbours of the same (l, p) are merged, empty blocks dropped
SimplifyInto(out, Rs) ==
    IF Rs = <<>> THEN out
    ELSE LET b == Head(Rs)
         IN  IF out # <<>> /\ out[Len(out)][2] = b[2] /\ out[Len(out)][3] = b[3]
             THEN SimplifyInto([out EXCEPT ![Len(out)] = <<@[1] + b[1], b[2], b[3]>>], Tail(Rs))
             ELSE IF b[1] > 0 THEN SimplifyInto(Append(out, b), Tail(Rs))
             ELSE SimplifyInto(out, Tail(Rs))

Simplify(Rs) == SimplifyInto(<<>>, Rs)

RECURSIVE BlockAt(_, _)
\* the block of Rs the column col belongs to
BlockAt(Rs, col) ==
    IF col < BlockDim(Head(Rs)) THEN Head(Rs) ELSE BlockAt(Tail(Rs), col - BlockDim(Head(Rs)))

\* a block of the same l, whatever its parity
AnySameL(Rs_in, block) == \E k \in DOMAIN Rs_in : Rs_in[k][2] = block[2]

\* any(l_in == l and p_in == p for _, l_in, p_in in self.Rs_in)
AnySameLP(Rs_in, block) ==
    \E k \in DOMAIN Rs_in : Rs_in[k][2] = block[2] /\ Rs_in[k][3] = block[3]

\* has_self_interaction: torch.cat of ones or zeros, mul * (2 * l + 1) per block
HasSelfInteraction(Rs_in, Rs_out) ==
    Cat([k \in DOMAIN Rs_out |->
            [c \in 1 .. BlockDim(Rs_out[k]) |-> IF AnySameLP(Rs_in, Rs_out[k]) THEN 1 ELSE 0]])

\* Linear(Rs_in, Rs_out, allow_unused_inputs=True, allow_zero_outputs=True)
\* with the weight a: an output block without an input of its (l, p) is zero
Linear1(c, a) ==
    Tensor([n \in Range0(c.n_target) |-> [col \in Range0(DimOf(c.Rs_out)) |->
        IF AnySameLP(c.Rs_in, BlockAt(c.Rs_out, col))
        THEN a * (col + 1) * (1 + SumTo(c.features[n], DimOf(c.Rs_in)))
        ELSE 0]])

\* Linear(Rs_out, Rs_out) with the weight a
Linear2(features, rows, width, a) ==
    Tensor([n \in Range0(rows) |-> [col \in Range0(width) |-> a * features[n][col]]])

\* GroupedWeightedTensorProduct(Rs_in, Rs_sh, Rs_out)(x_j, sh, w) of the edges
GroupedTensorProduct(c, x_j) ==
    [e \in Range0(c.E) |-> [col \in Range0(DimOf(c.Rs_out)) |->
        (col + 1) * (1 + SumTo(x_j[e], DimOf(c.Rs_in)))]]

\* self.propagate(edge_index, size=size, x=features, sh=sh, w=w)
WTPConv2Aggregate(c) ==
    LET x_j == Collect(c)
    IN  IF x_j.raised THEN Raised
        ELSE IF \E e \in Range0(c.E) : c.edge_index[FlowIJ[1]][e] >= DimSize(c) THEN Raised
        ELSE Returned(ScatterAdd(GroupedTensorProduct(c, x_j.val), c.edge_index[FlowIJ[1]],
                                 c.E, DimSize(c), DimOf(c.Rs_out)))

\* 0.5 ** 0.5 * self_interation + (1 + (0.5 ** 0.5 - 1) * has_self_interaction) * features
Mix(self_interation, has_self_interaction, features, rows, width) ==
    IF Len(has_self_interaction) # width THEN Raised      \* shapes that do not agree
    ELSE Returned([n \in Range0(rows) |-> [col \in Range0(width) |->
            [one       |-> features[n][col] - has_self_interaction[col + 1] * features[n][col],
             sqrt_half |-> self_interation[n][col]
                           + has_self_interaction[col + 1] * features[n][col]]]])

(***************************************************************************)
(* The inputs and the steps of a call of WTPConv2.forward.                 *)
(***************************************************************************)
BlockValues == {<<2, 0, 1>>, <<1, 1, -1>>, <<1, 1, 1>>, <<0, 0, 1>>}

\* the representations of up to MaxBlocks blocks
Representations == UNION {[1 .. n -> BlockValues] : n \in 1 .. MaxBlocks}

LinearWeights == {1, -2}

WTPConv2Init ==
    /\ WTPConv2Alone
    /\ \E Rs_in \in Representations, Rs_out \in Representations,
          N \in 1 .. MaxNodes, E \in {0, MaxEdges}, size \in {"None", "given"} :
         wtp = [Rs_in |-> Simplify(Rs_in), Rs_out |-> Simplify(Rs_out),
                n_target |-> N,
                features |-> [n \in Range0(N) |-> [col \in Range0(DimOf(Rs_in)) |-> n + col - 1]],
                E |-> E,
                edge_index |-> (0 :> [e \in Range0(E) |-> e % N]) @@
                               (1 :> [e \in Range0(E) |-> (e + 1) % N]),
                size |-> IF size = "None" THEN None ELSE <<N, N>>,
                self_interation |-> None, propagated |-> None, linear |-> None,
                has_self_interaction |-> None, out |-> None,
                raised |-> FALSE, pc |-> "forward"]

\* sh, w and self_interation = self.lin1(features)
WTPConv2SelfInteraction ==
    /\ wtp.pc = "forward"
    /\ \E a \in LinearWeights :
          wtp' = [wtp EXCEPT !.self_interation = Linear1(wtp, a), !.pc = "propagate"]
    /\ UNCHANGED WTPConv2Rest

\* features = self.propagate(...)
WTPConv2Propagate ==
    /\ wtp.pc = "propagate"
    /\ LET features == WTPConv2Aggregate(wtp)
       IN  wtp' = IF features.raised THEN [wtp EXCEPT !.raised = TRUE, !.pc = "done"]
                  ELSE [wtp EXCEPT !.propagated = features.val, !.pc = "linear"]
    /\ UNCHANGED WTPConv2Rest

\* features = self.lin2(features)
WTPConv2Linear ==
    /\ wtp.pc = "linear"
    /\ \E a \in LinearWeights :
          wtp' = [wtp EXCEPT !.linear = Linear2(wtp.propagated, DimSize(wtp),
                                                DimOf(wtp.Rs_out), a),
                             !.pc = "mix"]
    /\ UNCHANGED WTPConv2Rest

\* has_self_interaction and the return
WTPConv2Return ==
    /\ wtp.pc = "mix"
    /\ LET has_self_interaction == HasSelfInteraction(wtp.Rs_in, wtp.Rs_out)
           out == Mix(wtp.self_interation, has_self_interaction, wtp.linear,
                      wtp.n_target, DimOf(wtp.Rs_out))
       IN  wtp' = IF out.raised THEN [wtp EXCEPT !.raised = TRUE, !.pc = "done"]
                  ELSE [wtp EXCEPT !.has_self_interaction = has_self_interaction,
                                   !.out = out.val,
                                   !.pc = "done"]
    /\ UNCHANGED WTPConv2Rest

WTPConv2Next ==
    \/ WTPConv2SelfInteraction
    \/ WTPConv2Propagate
    \/ WTPConv2Linear
    \/ WTPConv2Return

SpecWTPConv2 == WTPConv2Init /\ [][WTPConv2Next]_vars

(***************************************************************************)
(* Properties of WTPConv2.                                                 *)
(***************************************************************************)
\* WTPConv2.forward returned
WTPConv2Done == wtp.pc = "done" /\ ~wtp.raised

\* Rs_in has a block of the (l, p) of the block of output column col
SameLPInput(col) ==
    LET block == BlockAt(wtp.Rs_out, col)
    IN  \E k \in DOMAIN wtp.Rs_in : <<wtp.Rs_in[k][2], wtp.Rs_in[k][3]>> = <<block[2], block[3]>>

\* C10: every output column of WTPConv2.forward is sqrt(1/2) * self-interaction
\* + c * message, with c = sqrt(1/2) if Rs_in has a block of the (l, p) of the
\* column's output block and c = 1 otherwise, and the coefficient mask has
\* dim(Rs_out) entries.
WTPConv2MixingRule ==
    WTPConv2Done =>
        /\ Len(wtp.has_self_interaction) = DimOf(wtp.Rs_out)
        /\ \A n \in Range0(wtp.n_target), col \in Range0(DimOf(wtp.Rs_out)) :
              wtp.out[n][col] =
                  IF SameLPInput(col)
                  THEN [one |-> 0, sqrt_half |-> wtp.self_interation[n][col] + wtp.linear[n][col]]
                  ELSE [one |-> wtp.linear[n][col], sqrt_half |-> wtp.self_interation[n][col]]

\* a call returned whose output has a column with an input of its (l, p) and
\* a column without, both with a message that is not zero
WTPConv2BothKindsDone ==
    /\ WTPConv2Done
    /\ \E n \in Range0(wtp.n_target), col \in Range0(DimOf(wtp.Rs_out)) :
          SameLPInput(col) /\ wtp.linear[n][col] # 0 /\ wtp.self_interation[n][col] # 0
    /\ \E n \in Range0(wtp.n_target), col \in Range0(DimOf(wtp.Rs_out)) :
          ~SameLPInput(col) /\ wtp.linear[n][col] # 0

(***************************************************************************)
(* Unpooling and its helpers.  The layers are as in Pooling: the bloom     *)
(* convolution is any layer (its output is drawn), the bloom module is a   *)
(* Bloom, the gather convolution a Convolution of scalars with weight 1.   *)
(* The square of a length is an exact fraction <<num, den>>.               *)
(***************************************************************************)
\* the square of the distance of two exact positions
PointDist2(a, b) ==
    LET d == CentroidSub(a, b)
    IN  <<SumTo([k \in Range0(3) |-> d.num[k] * d.num[k]], 3), d.den * d.den>>

\* a distance within a radius, by their squares; whether a distance equal to
\* the radius counts depends on the build of torch_cluster
Within(d2, r2, closed) == IF closed THEN FracLeq(d2, r2) ELSE ~FracLeq(r2, d2)

\* radius_graph(pos[nodes], r, batch=batch, loop=False): the pairs of distinct
\* points of one example that are within r of each other
RadiusGraph(pos, nodes, r2, batch, closed) ==
    {e \in nodes \X nodes :
        /\ e[1] # e[2]
        /\ batch # None => batch[e[1]] = batch[e[2]]
        /\ Within(PointDist2(pos[e[1]], pos[e[2]]), r2, closed)}

\* Unpooling.merge_clusters(pos, r, batch): the columns (i, node) of the
\* connected components, component after component in the order of their
\* first node
MergeClusters(pos, B, r, batch, closed) ==
    LET edge_index == RadiusGraph(pos, Range0(B), <<r * r, 1>>, batch, closed)
        kept       == {e \in edge_index : ~(e[2] > e[1])}
        first      == Tensor([n \in Range0(B) |-> MinOfSet(Reachable({n}, kept))])
        group(n)   == Cardinality({first[m] : m \in {x \in Range0(B) : first[x] < first[n]}})
        pos_map    == SortPairs({<<group(n), n>> : n \in Range0(B)})
    IN  Tensor((0 :> Tensor([j \in Range0(B) |-> pos_map[j + 1][1]])) @@
               (1 :> Tensor([j \in Range0(B) |-> pos_map[j + 1][2]])))

\* scatter_mean(bloom_pos, pos_map[0], dim=0)
UnpoolingNewPos(bloom_pos, B, index) ==
    Tensor([c \in Range0(NumClusters(index, B)) |->
        LET S == {j \in Range0(B) : index[j] = c}
        IN  Fraction(VecSum(bloom_pos, S), MeanCount(Cardinality(S)))])

\* the call of the gather convolution in Unpooling.forward
UnpoolingGatherCall(u, gather_edge_attr) ==
    ConvCall("Convolution", [Rs |-> "l0", groups |-> 0, weight |-> 1], u.x, u.N,
             (0 :> u.pos_map[0]) @@ (1 :> u.bloom_batch), u.B, gather_edge_attr,
             <<u.N, NumClusters(u.pos_map[0], u.B)>>, 1, 1)

\* the square of gather_edge_attr.norm(2, -1), one row
Norm2Squared(v) == <<SumTo([k \in Range0(3) |-> v.num[k] * v.num[k]], 3), v.den * v.den>>

\* scatter_max(src, index, dim=0): the maxima and the positions of the maxima;
\* src holds squares of lengths, and a position is kept as its square too, as
\* both are read as a radius
ScatterMax(src, B, index) ==
    LET rows == NumClusters(index, B)
        arg(b) == LET own == {j \in Range0(B) : index[j] = b}
                  IN  IF own = {} THEN B
                      ELSE CHOOSE j \in own : \A k \in own :
                               /\ FracLeq(src[k], src[j])
                               /\ FracLeq(src[j], src[k]) => j <= k
    IN  <<[b \in Range0(rows) |-> IF arg(b) = B THEN <<0, 1>> ELSE src[arg(b)]],
          [b \in Range0(rows) |-> <<arg(b) * arg(b), 1>>]>>

\* scatter_add(x.new_ones(batch.shape), batch, dim=0) and num_batch[:i].sum()
NodesBefore(batch, N, i) == Cardinality({n \in Range0(N) : batch[n] < i})

\* the loop over gather_max and torch.cat(new_edge_index, dim=-1): gather_max
\* is the pair scatter_max returns, and the radius of a turn is a tensor with
\* one entry per example
UnpoolingNewEdgeIndex(u, gather_max) ==
    LET C == NumClusters(u.pos_map[0], u.B)
        turn(i) == LET n == NodesBefore(u.batch, u.N, i)
                   IN  SortPairs(RadiusGraph(u.new_pos, n .. C - 1, gather_max[i + 1][0],
                                             None, u.closed))
    IN  turn(0) \o turn(1)

(***************************************************************************)
(* The inputs and the steps of a call of Unpooling.forward.                *)
(***************************************************************************)
UnpoolingInit ==
    /\ UnpoolingAlone
    /\ \E N \in 1 .. MaxPoolNodes, closed \in BOOLEAN :
         \E batch \in Batches(N), edges \in PoolingEdges(N), min_radius \in PoolingMinRadiusValues :
           unpool = [N |-> N, pos |-> PoolingPositions(N), batch |-> batch,
                     edge_index |-> edges.edge_index, E |-> edges.E, min_radius |-> min_radius,
                     closed |-> closed,
                     sph |-> None, x |-> None, bloom_pos |-> None, bloom_batch |-> None, B |-> 0,
                     pos_map |-> None, new_pos |-> None, gather_edge_attr |-> None,
                     x_out |-> None, new_edge_index |-> None, new_edge_attr |-> None,
                     new_batch |-> None, raised |-> FALSE, pc |-> "conv"]

\* out = self.layers['conv'](...), sph and x
UnpoolingConv ==
    /\ unpool.pc = "conv"
    /\ \E sph \in [Range0(unpool.N) -> Signals] :
          unpool' = [unpool EXCEPT !.sph = sph,
                                   !.x = [n \in Range0(unpool.N) |-> (0 :> n + 1)],
                                   !.pc = "bloom"]
    /\ UNCHANGED UnpoolingRest

\* bloom_pos, bloom_batch = self.layers['bloom'](sph, pos, min_radius)
UnpoolingBloom ==
    /\ unpool.pc = "bloom"
    /\ \E found \in [Range0(unpool.N) -> PoolingPeakLists] :
          /\ \A i \in Range0(unpool.N) : ~NonZeroSignal(unpool.sph[i]) => found[i].radii = <<>>
          /\ LET b == BloomForward(unpool.sph, unpool.pos, unpool.N, found, unpool.min_radius)
             IN  unpool' = IF b.raised THEN [unpool EXCEPT !.raised = TRUE, !.pc = "done"]
                           ELSE [unpool EXCEPT !.bloom_pos = AsTensor(b.val.peak_positions),
                                               !.bloom_batch = AsTensor(b.val.origin_index),
                                               !.B = Len(b.val.origin_index),
                                               !.pc = "merge"]
    /\ UNCHANGED UnpoolingRest

\* pos_map = self.merge_clusters(bloom_pos, min_radius, batch[bloom_batch]) and new_pos
UnpoolingMerge ==
    /\ unpool.pc = "merge"
    /\ LET pos_map == MergeClusters([j \in Range0(unpool.B) |-> Point(unpool.bloom_pos[j])],
                                    unpool.B, unpool.min_radius,
                                    [j \in Range0(unpool.B) |-> unpool.batch[unpool.bloom_batch[j]]],
                                    unpool.closed)
       IN  unpool' = [unpool EXCEPT !.pos_map = pos_map,
                                    !.new_pos = UnpoolingNewPos(unpool.bloom_pos, unpool.B, pos_map[0]),
                                    !.pc = "gather"]
    /\ UNCHANGED UnpoolingRest

\* gather_edge_index, gather_edge_attr and x = self.layers['gather'](...)
UnpoolingGather ==
    /\ unpool.pc = "gather"
    /\ LET gather_edge_attr == GatherEdgeAttr(unpool.pos, unpool.bloom_batch, unpool.B,
                                              unpool.new_pos, unpool.pos_map[0])
           x == IF gather_edge_attr.raised THEN Raised
                ELSE Forward(UnpoolingGatherCall(unpool, gather_edge_attr.val))
       IN  unpool' = IF x.raised THEN [unpool EXCEPT !.raised = TRUE, !.pc = "done"]
                     ELSE [unpool EXCEPT !.gather_edge_attr = gather_edge_attr.val,
                                         !.x_out = x.val,
                                         !.pc = "edges"]
    /\ UNCHANGED UnpoolingRest

\* gather_max, num_batch, new_edge_index, new_edge_attr, new_batch and the
\* return; radius_graph is handed a tensor as its radius: it takes the value
\* of a tensor of one entry, or the call raises
UnpoolingEdgesAndBatch ==
    /\ unpool.pc = "edges"
    /\ LET batch == [j \in Range0(unpool.B) |-> unpool.batch[unpool.bloom_batch[j]]]
           gather_max == ScatterMax([j \in Range0(unpool.B) |->
                                        Norm2Squared(unpool.gather_edge_attr[j])],
                                    unpool.B, batch)
       IN  \E taken \in BOOLEAN :
              IF ~taken \/ NumBatches(unpool.batch, unpool.N) > 1
              THEN unpool' = [unpool EXCEPT !.raised = TRUE, !.pc = "done"]
              ELSE LET new_edge_index == UnpoolingNewEdgeIndex(unpool, gather_max)
                       new_edge_attr == NewEdgeAttr(unpool.new_pos, new_edge_index)
                   IN  unpool' = IF new_edge_attr.raised
                                 THEN [unpool EXCEPT !.raised = TRUE, !.pc = "done"]
                                 ELSE [unpool EXCEPT
                                         !.new_edge_index = new_edge_index,
                                         !.new_edge_attr = new_edge_attr.val,
                                         !.new_batch = GetNewBatch((0 :> unpool.pos_map[0]) @@
                                                                   (1 :> unpool.bloom_batch),
                                                                   unpool.B, batch),
                                         !.pc = "done"]
    /\ UNCHANGED UnpoolingRest

UnpoolingNext ==
    \/ UnpoolingConv
    \/ UnpoolingBloom
    \/ UnpoolingMerge
    \/ UnpoolingGather
    \/ UnpoolingEdgesAndBatch

SpecUnpooling == UnpoolingInit /\ [][UnpoolingNext]_vars

(***************************************************************************)
(* Properties of Unpooling.                                                *)
(***************************************************************************)
\* Unpooling.forward has merged the bloomed points and gathered into the
\* refined points
UnpoolingGathered ==
    unpool.pc = "edges" \/ (unpool.pc = "done" /\ unpool.x_out # None)

\* the bloomed points connected to bloomed point j in the graph of the
\* bloomed points of one example within min_radius of each other
UnpoolingComponent(j) ==
    Reachable({j}, RadiusGraph([k \in Range0(unpool.B) |-> Point(unpool.bloom_pos[k])],
                               Range0(unpool.B),
                               <<unpool.min_radius * unpool.min_radius, 1>>,
                               [k \in Range0(unpool.B) |-> unpool.batch[unpool.bloom_batch[k]]],
                               unpool.closed))

\* the columns of pos_map that hold bloomed point j
UnpoolingColumnsOf(j) == {k \in Range0(unpool.B) : unpool.pos_map[1][k] = j}

\* C13: merge_clusters places every bloomed point in exactly one connected
\* component of the within-min_radius graph, the refined point pos_map[0][j]
\* that bloomed point j is averaged and gathered into is the component that
\* contains j, and so every refined position is the mean of the bloomed
\* points of exactly one component.
UnpoolingRefinedPointIsComponent ==
    UnpoolingGathered =>
        /\ \A j \in Range0(unpool.B) : Cardinality(UnpoolingColumnsOf(j)) = 1
        /\ \A k1, k2 \in Range0(unpool.B) :
              unpool.pos_map[0][k1] = unpool.pos_map[0][k2]
                  <=> unpool.pos_map[1][k2] \in UnpoolingComponent(unpool.pos_map[1][k1])
        /\ \A j \in Range0(unpool.B) :
              \A k \in UnpoolingColumnsOf(j) : unpool.pos_map[0][j] = unpool.pos_map[0][k]
        /\ \A j \in Range0(unpool.B) :
              unpool.new_pos[unpool.pos_map[0][j]] =
                  Fraction(VecSum(unpool.bloom_pos, UnpoolingComponent(j)),
                           Cardinality(UnpoolingComponent(j)))

====
